---- MODULE Spec2Model ----
(***************************************************************************)
(* Radafi: the worker pool of midhyae/threadpool.rs and the recording      *)
(* tasks that midhyae/mod.rs submits to it.                                *)
(*                                                                         *)
(* Spec       the pool with identified workers and tasks, driven by a      *)
(*            client that calls execute(), terminate() and finally drops   *)
(*            the pool (record_streams is the client that executes, then   *)
(*            terminates once, then drops).                                *)
(* FairSpec   Spec with every thread scheduled (weak fairness).            *)
(* SpecRecord one call of record_streams with the pool it builds, for up   *)
(*            to MaxStreams streams and the cap of ten workers; the        *)
(*            worker threads are counted by position.                      *)
(* SpecTask   one recording task closure, statement by statement, with     *)
(*            the time that passes while it runs.                          *)
(* SpecMain   one run of main(): store_streams against a catalog that may  *)
(*            fail, then record_streams with the pool of Spec.             *)
(***************************************************************************)
EXTENDS Integers, Sequences, FiniteSets, TLC

\* Bounds of the exploration.
MaxSize == 2
MaxTasks == 2
MaxTerminateCalls == 2

Sizes == 1..MaxSize
TaskIds == 1..MaxTasks

VARIABLES
    workers,      \* ThreadPool.workers: Seq of [id, thread]; thread is "Some" or "None"
    sender,       \* ThreadPool.sender: "alive" until the pool is dropped
    queue,        \* the mpsc channel: messages sent and not yet received
    lockHolder,   \* the worker holding the receiver Mutex, 0 when free
    poisoned,     \* the receiver Mutex is poisoned
    wpc,          \* position of each worker thread in its loop
    cur,          \* the task a worker is executing, 0 when none
    mainPc,       \* position of the thread that owns the pool
    mainIdx,      \* index of the running `for` loop over self.workers
    inDrop,       \* the running terminate() was called by Drop::drop
    fault,        \* which unwrap() of the owning thread panicked, "none" if none
    submitted,    \* number of execute() calls that sent their task
    termCalls,    \* number of terminate() calls made by the client itself
    beforeTerm,   \* number of tasks sent before the first terminate() call began, -1 before it
    termSent,     \* number of Terminate messages sent so far
    execCount,    \* how many times each task closure has been invoked
    termRecv,     \* how many Terminate messages each worker has received
    res           \* what each task closure did, NoResult before it has finished

\* State of SpecRecord: one call of Listener::record_streams, its threads counted by
\* position instead of identified.
VARIABLES
    nstreams,     \* self.streams.len()
    rpc,          \* position of the caller inside record_streams
    ridx,         \* index of the running loop
    num_workers,  \* the local num_workers, 0 before it is computed
    spawned,      \* pool.workers.len(): the Worker::new calls made
    chan,         \* the channel: kinds of the messages sent and not yet received
    rsender,      \* the pool's sender
    rpoisoned,    \* the receiver Mutex is poisoned
    wcount,       \* number of worker threads at each position of the worker loop
    running,      \* number of task closures invoked and not yet finished
    rfault        \* what made record_streams panic, "none" if nothing

\* State of SpecTask: one run of the closure that record_streams hands to execute().
VARIABLES
    tpc,          \* position inside the closure
    duration,     \* duration_seconds, in ticks
    elapsed,      \* start_time.elapsed(), in ticks; 0 until start_time is taken
    file,         \* the target file: "absent", or the sequence of chunks it holds
    nrequests,    \* number of client.get(..).send() calls made
    nreads,       \* number of response.chunk() calls started
    tlog,         \* the lines logged by the closure
    stopped,      \* why the chunk loop ended, "none" while it has not
    lateReads,    \* chunk() calls started when elapsed had reached the duration
    lateWrites    \* chunks written when elapsed had reached the duration

\* State of SpecMain: the Listener that main() drives.
VARIABLES
    lpc,          \* position of main() inside store_streams and record_streams
    places,       \* the places fetch_places returned
    pidx,         \* number of places whose channels have been fetched
    streams,      \* self.streams: Seq of [name, url]
    storeResult,  \* what store_streams returned: "none" before, then "ok" or "err"
    dir           \* the target directory: "absent" or "created"

listenerVars == <<lpc, places, pidx, streams, storeResult, dir>>

taskVars == <<tpc, duration, elapsed, file, nrequests, nreads, tlog, stopped, lateReads,
              lateWrites>>

poolVars == <<workers, sender, queue, lockHolder, poisoned, wpc, cur, mainPc, mainIdx,
              inDrop, fault, submitted, termCalls, beforeTerm, termSent, execCount,
              termRecv, res>>

recordVars == <<nstreams, rpc, ridx, num_workers, spawned, chan, rsender, rpoisoned,
                wcount, running, rfault>>

vars == <<poolVars, recordVars, taskVars, listenerVars>>

nonPoolVars == <<recordVars, taskVars, listenerVars>>
nonRecordVars == <<poolVars, taskVars, listenerVars>>
nonTaskVars == <<poolVars, recordVars, listenerVars>>

NumWorkers == Len(workers)
WorkerIds == 1..NumWorkers

(***************************************************************************)
(* Messages (enum Message).                                                *)
(***************************************************************************)
NewTask(t) == [kind |-> "NewTask", task |-> t]
Terminate == [kind |-> "Terminate", task |-> 0]

(***************************************************************************)
(* The recording task closure.  Its environment decides how each step      *)
(* ends: creation of the runtime, the request, File::create and the way    *)
(* the chunk loop stops.                                                   *)
(***************************************************************************)
LoopStops == {"deadline", "eof", "write_err", "read_err"}

TaskEnvs ==
    {[rt |-> FALSE, send |-> FALSE, create |-> FALSE, stop |-> "eof"],
     [rt |-> TRUE, send |-> FALSE, create |-> FALSE, stop |-> "eof"],
     [rt |-> TRUE, send |-> TRUE, create |-> FALSE, stop |-> "eof"]}
    \cup {[rt |-> TRUE, send |-> TRUE, create |-> TRUE, stop |-> s] : s \in LoopStops}

NoResult ==
    [done |-> FALSE, panicked |-> FALSE, request |-> "none", requests |-> 0,
     created |-> FALSE, log |-> <<>>]

LoopLog(stop) ==
    CASE stop = "write_err" -> <<"Error writing to file">>
      [] stop = "read_err" -> <<"Error reading from response">>
      [] OTHER -> <<>>

\* A closure that asks again after a failed request and creates the file before it
\* knows the answer.
RecordingTaskRetrying(env) ==
    IF ~env.rt
    THEN [done |-> TRUE, panicked |-> TRUE, request |-> "none", requests |-> 0,
          created |-> FALSE, log |-> <<>>]
    ELSE IF ~env.send
    THEN [done |-> TRUE, panicked |-> FALSE, request |-> "failed", requests |-> 2,
          created |-> TRUE, log |-> <<"Error fetching stream URL">>]
    ELSE [done |-> TRUE, panicked |-> FALSE, request |-> "ok", requests |-> 1,
          created |-> env.create,
          log |-> IF env.create THEN LoopLog(env.stop) \o <<"Successfully recorded">>
                  ELSE <<"Error creating file">>]

\* Runtime::new().unwrap(), then client.get(..).send(), File::create and the chunk loop.
RecordingTask(env) ==
    IF ~env.rt
    THEN [done |-> TRUE, panicked |-> TRUE, request |-> "none", requests |-> 0,
          created |-> FALSE, log |-> <<>>]
    ELSE IF ~env.send
    THEN [done |-> TRUE, panicked |-> FALSE, request |-> "failed", requests |-> 1,
          created |-> FALSE, log |-> <<"Error fetching stream URL">>]
    ELSE IF ~env.create
    THEN [done |-> TRUE, panicked |-> FALSE, request |-> "ok", requests |-> 1,
          created |-> FALSE, log |-> <<"Error creating file">>]
    ELSE [done |-> TRUE, panicked |-> FALSE, request |-> "ok", requests |-> 1,
          created |-> TRUE, log |-> LoopLog(env.stop) \o <<"Successfully recorded">>]

(***************************************************************************)
(* The channel and the receiver it is shared through.                      *)
(***************************************************************************)
\* The Receiver lives in an Arc that every worker closure holds a clone of: it is
\* dropped when the last worker thread has left its closure.
ReceiverAlive == \E w \in WorkerIds : wpc[w] \notin {"exited", "panicked"}

Send(q, m) == Append(q, m)

\* A receive that leaves the message in the channel.
RecvPeek(q) == q

\* What recv() leaves in the channel: it removes the message it returns.
RecvRest(q) == Tail(q)

Positions == {"lock", "recv", "task", "exited", "panicked"}

\* SpecRecord's variables while Spec runs.
RecordIdle ==
    /\ nstreams = 0
    /\ rpc = "idle"
    /\ ridx = 0
    /\ num_workers = 0
    /\ spawned = 0
    /\ chan = <<>>
    /\ rsender = "none"
    /\ rpoisoned = FALSE
    /\ wcount = [p \in Positions |-> 0]
    /\ running = 0
    /\ rfault = "none"

\* SpecMain's variables while another specification runs.
ListenerIdle ==
    /\ lpc = "idle"
    /\ places = <<>>
    /\ pidx = 0
    /\ streams = <<>>
    /\ storeResult = "none"
    /\ dir = "absent"

\* SpecTask's variables while another specification runs.
TaskIdle ==
    /\ tpc = "idle"
    /\ duration = 0
    /\ elapsed = 0
    /\ file = "absent"
    /\ nrequests = 0
    /\ nreads = 0
    /\ tlog = <<>>
    /\ stopped = "none"
    /\ lateReads = 0
    /\ lateWrites = 0

(***************************************************************************)
(* Init: the state after ThreadPool::new(size).                            *)
(***************************************************************************)
Init ==
    /\ \E size \in Sizes : workers = [i \in 1..size |-> [id |-> i - 1, thread |-> "Some"]]
    /\ sender = "alive"
    /\ queue = <<>>
    /\ lockHolder = 0
    /\ poisoned = FALSE
    /\ wpc = [w \in 1..Len(workers) |-> "lock"]
    /\ cur = [w \in 1..Len(workers) |-> 0]
    /\ mainPc = "body"
    /\ mainIdx = 0
    /\ inDrop = FALSE
    /\ fault = "none"
    /\ submitted = 0
    /\ termCalls = 0
    /\ beforeTerm = -1
    /\ termSent = 0
    /\ execCount = [t \in TaskIds |-> 0]
    /\ termRecv = [w \in 1..Len(workers) |-> 0]
    /\ res = [t \in TaskIds |-> NoResult]
    /\ RecordIdle
    /\ TaskIdle
    /\ ListenerIdle

workerVars == <<lockHolder, poisoned, wpc, cur, execCount, termRecv, res>>

\* A panic of the owning thread unwinds and drops the pool, and its sender with it.
MainPanics(why) ==
    /\ mainPc' = "panicked"
    /\ fault' = why
    /\ sender' = "dropped"

(***************************************************************************)
(* ThreadPool::execute                                                     *)
(***************************************************************************)
Execute ==
    /\ mainPc = "body"
    /\ submitted < MaxTasks
    /\ IF ReceiverAlive
       THEN /\ queue' = Send(queue, NewTask(submitted + 1))
            /\ submitted' = submitted + 1
            /\ UNCHANGED <<mainPc, fault, sender>>
       ELSE /\ MainPanics("execute_send")
            /\ UNCHANGED <<queue, submitted>>
    /\ UNCHANGED <<workers, mainIdx, inDrop, termCalls, beforeTerm, termSent>>
    /\ UNCHANGED workerVars
    /\ UNCHANGED nonPoolVars

(***************************************************************************)
(* ThreadPool::terminate: the call, then one send per worker.              *)
(***************************************************************************)
TerminateCall ==
    /\ mainPc = "body"
    /\ termCalls < MaxTerminateCalls
    /\ mainPc' = "terminate"
    /\ mainIdx' = 0
    /\ inDrop' = FALSE
    /\ termCalls' = termCalls + 1
    /\ beforeTerm' = IF beforeTerm = -1 THEN submitted ELSE beforeTerm
    /\ UNCHANGED <<workers, sender, queue, fault, submitted, termSent>>
    /\ UNCHANGED workerVars
    /\ UNCHANGED nonPoolVars

DropBegin ==
    /\ mainPc = "body"
    /\ inDrop' = TRUE
    /\ mainIdx' = 0
    /\ mainPc' = "terminate"
    /\ beforeTerm' = IF beforeTerm = -1 THEN submitted ELSE beforeTerm
    /\ UNCHANGED <<workers, sender, queue, fault, submitted, termCalls, termSent>>
    /\ UNCHANGED workerVars
    /\ UNCHANGED nonPoolVars

TerminateSend ==
    /\ mainPc = "terminate"
    /\ IF ReceiverAlive
       THEN /\ queue' = Send(queue, Terminate)
            /\ termSent' = termSent + 1
            /\ IF mainIdx + 1 < NumWorkers
               THEN /\ mainIdx' = mainIdx + 1
                    /\ UNCHANGED mainPc
               ELSE /\ mainIdx' = 0
                    /\ mainPc' = IF inDrop THEN "join" ELSE "body"
            /\ UNCHANGED <<fault, sender>>
       ELSE /\ MainPanics("terminate_send")
            /\ UNCHANGED <<queue, termSent, mainIdx>>
    /\ UNCHANGED <<workers, inDrop, submitted, termCalls, beforeTerm>>
    /\ UNCHANGED workerVars
    /\ UNCHANGED nonPoolVars

(***************************************************************************)
(* Drop::drop, the join loop.                                              *)
(***************************************************************************)
\* A join that does not wait for the thread.
JoinDetached(w) == TRUE

\* thread.join() returns once the thread has finished.
JoinReady(w) == wpc[w] \in {"exited", "panicked"}

Join ==
    /\ mainPc = "join"
    /\ LET w == mainIdx + 1 IN
       /\ JoinReady(w)
       /\ workers' = [workers EXCEPT ![w].thread = "None"]
       /\ IF wpc[w] = "panicked"
          THEN /\ MainPanics("join")
               /\ UNCHANGED mainIdx
          ELSE /\ fault' = fault
               /\ IF w < NumWorkers
                  THEN /\ mainIdx' = mainIdx + 1
                       /\ UNCHANGED <<mainPc, sender>>
                  ELSE /\ mainIdx' = 0
                       /\ mainPc' = "returned"
                       /\ sender' = "dropped"
    /\ UNCHANGED <<queue, inDrop, submitted, termCalls, beforeTerm, termSent>>
    /\ UNCHANGED workerVars
    /\ UNCHANGED nonPoolVars

(***************************************************************************)
(* Worker::new, the loop of the spawned thread.                            *)
(***************************************************************************)
mainVars == <<workers, sender, mainPc, mainIdx, inDrop, fault, submitted, termCalls,
              beforeTerm, termSent>>

\* receiver.lock().unwrap()
WorkerLock(w) ==
    /\ wpc[w] = "lock"
    /\ IF poisoned
       THEN /\ wpc' = [wpc EXCEPT ![w] = "panicked"]
            /\ UNCHANGED lockHolder
       ELSE /\ lockHolder = 0
            /\ lockHolder' = w
            /\ wpc' = [wpc EXCEPT ![w] = "recv"]
    /\ UNCHANGED <<queue, poisoned, cur, execCount, termRecv, res>>
    /\ UNCHANGED mainVars
    /\ UNCHANGED nonPoolVars

\* What the worker does after task() has been called and has returned.
AfterTask == "lock"

\* A guard that lives as long as the message taken under it.
GuardKeptByReceiver(w) == w

\* The holder of the lock once the `let message = ..;` statement has ended: its
\* temporary MutexGuard is dropped there, so nobody.
GuardAfterRecv(w) == 0

\* A worker that goes on with its loop after Terminate.
TerminateIgnored == "lock"

\* Message::Terminate => break: the thread leaves the loop and ends.
TerminatePosition == "exited"

\* .recv().unwrap(), the release of the guard and the match on the message.
WorkerRecv(w) ==
    /\ wpc[w] = "recv"
    /\ lockHolder = w
    /\ IF queue # <<>>
       THEN LET m == Head(queue) IN
            /\ queue' = RecvRest(queue)
            /\ lockHolder' = GuardAfterRecv(w)
            /\ UNCHANGED poisoned
            /\ IF m.kind = "NewTask"
               THEN /\ wpc' = [wpc EXCEPT ![w] = "task"]
                    /\ cur' = [cur EXCEPT ![w] = m.task]
                    /\ execCount' = [execCount EXCEPT ![m.task] = @ + 1]
                    /\ UNCHANGED termRecv
               ELSE /\ wpc' = [wpc EXCEPT ![w] = TerminatePosition]
                    /\ termRecv' = [termRecv EXCEPT ![w] = @ + 1]
                    /\ UNCHANGED <<cur, execCount>>
       ELSE /\ sender = "dropped"
            /\ wpc' = [wpc EXCEPT ![w] = "panicked"]
            /\ poisoned' = TRUE
            /\ lockHolder' = 0
            /\ UNCHANGED <<queue, cur, execCount, termRecv>>
    /\ UNCHANGED res
    /\ UNCHANGED mainVars
    /\ UNCHANGED nonPoolVars

\* task(): the closure runs to its end, or panics and takes the thread with it.
WorkerTask(w) ==
    /\ wpc[w] = "task"
    /\ \E env \in TaskEnvs :
         LET r == RecordingTask(env) IN
         /\ res' = [res EXCEPT ![cur[w]] = r]
         /\ wpc' = [wpc EXCEPT ![w] = IF r.panicked THEN "panicked" ELSE AfterTask]
    /\ cur' = [cur EXCEPT ![w] = 0]
    /\ UNCHANGED <<queue, lockHolder, poisoned, execCount, termRecv>>
    /\ UNCHANGED mainVars
    /\ UNCHANGED nonPoolVars

Next ==
    \/ Execute
    \/ TerminateCall
    \/ DropBegin
    \/ TerminateSend
    \/ Join
    \/ \E w \in WorkerIds : WorkerLock(w)
    \/ \E w \in WorkerIds : WorkerRecv(w)
    \/ \E w \in WorkerIds : WorkerTask(w)

Spec == Init /\ [][Next]_vars

\* The scheduler runs every thread that can take a step: the owning thread and each
\* of the MaxSize + 1 threads a pool can have (a thread that was not spawned has no step).
MainStep == Execute \/ TerminateCall \/ DropBegin \/ TerminateSend \/ Join
WorkerStep(w) == w \in WorkerIds /\ (WorkerLock(w) \/ WorkerRecv(w) \/ WorkerTask(w))

FairSpec ==
    /\ Spec
    /\ WF_vars(MainStep)
    /\ \A w \in 1..(MaxSize + 1) : WF_vars(WorkerStep(w))

(***************************************************************************)
(* Properties of the pool.                                                 *)
(***************************************************************************)
Submitted == 1..submitted
TeardownReturned == mainPc = "returned"
NoTaskPanicked == \A t \in TaskIds : ~res[t].panicked
Executing == {t \in TaskIds : \E w \in WorkerIds : wpc[w] = "task" /\ cur[w] = t}

\* C1 as stated: once teardown has returned every task handed to execute() has been
\* run exactly once, whenever it was submitted.
C1_EverySubmittedTaskRunOnce ==
    TeardownReturned => \A t \in Submitted : execCount[t] = 1

\* C1 as amended: no task is ever run twice or by two workers at once, and once teardown
\* has returned every task submitted before the first terminate() call began has been
\* run exactly once (and a task submitted after it has not been run).
C1_TasksBeforeTerminateRunOnce ==
    /\ \A t \in TaskIds : execCount[t] <= 1
    /\ \A t \in TaskIds : Cardinality({w \in WorkerIds : wpc[w] = "task" /\ cur[w] = t}) <= 1
    /\ \A t \in TaskIds \ Submitted : execCount[t] = 0
    /\ TeardownReturned =>
          \A t \in Submitted : /\ execCount[t] = (IF t <= beforeTerm THEN 1 ELSE 0)
                                /\ (t <= beforeTerm => res[t].done)

C1_Witness ==
    /\ TeardownReturned
    /\ NumWorkers = 2
    /\ submitted = 2
    /\ beforeTerm = 2
    /\ \A t \in Submitted : execCount[t] = 1

\* C2: once teardown has begun after a terminate() call, and no task panics, teardown
\* eventually returns (every worker exits and every join completes).
C2_TeardownReturns ==
    (mainPc = "terminate" /\ inDrop /\ termCalls >= 1)
        ~> (TeardownReturned \/ ~NoTaskPanicked)

\* C3: when teardown has returned every worker thread has exited, every handle has been
\* taken and joined, and no task is executing.
C3_NoWorkerOutlivesPool ==
    TeardownReturned =>
        /\ \A w \in WorkerIds : wpc[w] = "exited" /\ workers[w].thread = "None" /\ cur[w] = 0
        /\ Executing = {}

C3_Witness ==
    /\ TeardownReturned
    /\ NumWorkers = 2
    /\ termCalls = 1
    /\ submitted = 2
    /\ beforeTerm = 2

\* C4: when no task panics, a terminate() call by the client followed by the one teardown
\* makes is harmless: no send of either call fails and no join fails.
C4_RepeatedTerminateHarmless ==
    (NoTaskPanicked /\ termCalls <= 1) => fault \notin {"terminate_send", "join"}

\* C5: a client that calls terminate() at most once sees at most one Terminate per
\* worker sent, and exactly one per worker when teardown has returned.
C5_OneTerminatePerWorker ==
    termCalls <= 1 =>
        /\ termSent <= NumWorkers
        /\ (TeardownReturned => termSent = NumWorkers)

\* C6: a failing task ends only itself: no worker thread dies of it and the owning
\* thread does not panic.
C6_TaskFailuresAreLocal ==
    /\ \A w \in WorkerIds : wpc[w] # "panicked"
    /\ mainPc # "panicked"

\* C7: every task submitted before terminate() is called is eventually executed.
C7_TasksBeforeTerminateExecuted ==
    \A t \in TaskIds :
        (t \in Submitted /\ (beforeTerm = -1 \/ t <= beforeTerm)) ~> (execCount[t] >= 1)

\* C10: a task whose request fails made one request, created no file, logged the
\* failure and returned; its worker goes back to the channel and the messages
\* still queued stay queued for the pool.
C10_RequestFailure ==
    [][\A w \in WorkerIds :
         (wpc[w] = "task" /\ wpc'[w] # "task" /\ res'[cur[w]].request = "failed") =>
             /\ res'[cur[w]].requests = 1
             /\ ~res'[cur[w]].created
             /\ ~res'[cur[w]].panicked
             /\ res'[cur[w]].log = <<"Error fetching stream URL">>
             /\ wpc'[w] = "lock"
             /\ queue' = queue]_vars

C10_Witness ==
    /\ TeardownReturned
    /\ submitted = 2
    /\ res[1].request = "failed"
    /\ res[2].done /\ res[2].created

\* C15: a worker never receives a second Terminate, receives it when it runs no task
\* and is gone with it, and every worker whose thread has ended has received one.
C15_OneTerminatePerWorkerLifetime ==
    \A w \in WorkerIds :
        /\ termRecv[w] <= 1
        /\ termRecv[w] = 1 => (wpc[w] = "exited" /\ cur[w] = 0)
        /\ wpc[w] \in {"exited", "panicked"} => termRecv[w] = 1

\* C16: a worker holds the receiver lock only while it is inside recv(), at most one
\* worker is there, none holds it while it runs a task, and when nobody is inside
\* recv() the lock is free for a worker that wants the next item.
C16_LockHeldOnlyToReceive ==
    /\ Cardinality({w \in WorkerIds : wpc[w] = "recv"}) <= 1
    /\ \A w \in WorkerIds : wpc[w] = "recv" <=> lockHolder = w
    /\ \A w \in WorkerIds : wpc[w] = "task" => lockHolder # w
    /\ (\A w \in WorkerIds : wpc[w] # "recv") => lockHolder = 0

C16_Witness ==
    /\ NumWorkers = 2
    /\ wpc[1] = "task"
    /\ wpc[2] = "task"
    /\ lockHolder = 0

\* C19: a task submitted after a terminate() call has returned is never executed.
C19_TaskAfterTerminateNeverRuns ==
    \A t \in Submitted : (beforeTerm # -1 /\ t > beforeTerm) => execCount[t] = 0

C19_Witness ==
    /\ TeardownReturned
    /\ NumWorkers = 2
    /\ submitted = 2
    /\ beforeTerm = 1
    /\ execCount = <<1, 0>>

\* C20: while no task has panicked no worker has panicked and the lock is not
\* poisoned, the sender is alive as long as a worker thread is, and every worker
\* thread that has ended did so by receiving Terminate.
C20_NoFatalPathWithoutTaskPanic ==
    NoTaskPanicked =>
        /\ ~poisoned
        /\ \A w \in WorkerIds : wpc[w] # "panicked"
        /\ ReceiverAlive => sender = "alive"
        /\ \A w \in WorkerIds : wpc[w] = "exited" => termRecv[w] = 1

C20_Witness ==
    /\ TeardownReturned
    /\ NoTaskPanicked
    /\ NumWorkers = 2
    /\ submitted = 2
    /\ \A w \in WorkerIds : termRecv[w] = 1

(***************************************************************************)
(* SpecRecord: Listener::record_streams from its first statement to its    *)
(* return, with the pool it builds.  The worker threads run the loop of    *)
(* Worker::new; they are interchangeable, so the state counts the threads  *)
(* at each position of the loop, and a message is known by its kind.       *)
(***************************************************************************)
MaxStreams == 11

\* The literal of `std::cmp::min(10, self.streams.len())`.
PoolCap == 10

\* A pool with one worker per stream, however many streams there are.
OneWorkerPerStream(n) == n

\* std::cmp::min(10, self.streams.len())
NumWorkersFor(n) == IF PoolCap <= n THEN PoolCap ELSE n

\* A worker that hands the task to a thread of its own and goes back to the channel.
DetachedTaskPosition == "lock"

\* Where a worker thread is after it received NewTask: inside task(), which it calls itself.
TaskPosition == "task"

\* Spec's variables while another specification runs.
PoolIdle ==
    /\ workers = <<>>
    /\ sender = "none"
    /\ queue = <<>>
    /\ lockHolder = 0
    /\ poisoned = FALSE
    /\ wpc = <<>>
    /\ cur = <<>>
    /\ mainPc = "idle"
    /\ mainIdx = 0
    /\ inDrop = FALSE
    /\ fault = "none"
    /\ submitted = 0
    /\ termCalls = 0
    /\ beforeTerm = -1
    /\ termSent = 0
    /\ execCount = [t \in TaskIds |-> 0]
    /\ termRecv = <<>>
    /\ res = [t \in TaskIds |-> NoResult]

InitRecord ==
    /\ nstreams \in 0..MaxStreams
    /\ rpc = "create_dir"
    /\ ridx = 0
    /\ num_workers = 0
    /\ spawned = 0
    /\ chan = <<>>
    /\ rsender = "none"
    /\ rpoisoned = FALSE
    /\ wcount = [p \in Positions |-> 0]
    /\ running = 0
    /\ rfault = "none"
    /\ PoolIdle
    /\ TaskIdle
    /\ ListenerIdle

Move(from, to) == [wcount EXCEPT ![from] = @ - 1, ![to] = @ + 1]

\* The Receiver is dropped with the last clone of its Arc, one per running worker thread.
RecordReceiverAlive == wcount["lock"] + wcount["recv"] + wcount["task"] > 0

RecordPanics(why) ==
    /\ rpc' = "panicked"
    /\ rfault' = why
    /\ rsender' = IF rsender = "alive" THEN "dropped" ELSE rsender

recordWorkerVars == <<rpoisoned, wcount, running>>

\* fs::create_dir_all(directory)?
CreateDir ==
    /\ rpc = "create_dir"
    /\ \E ok \in BOOLEAN : rpc' = IF ok THEN "new" ELSE "failed"
    /\ UNCHANGED <<nstreams, ridx, num_workers, spawned, chan, rsender, rfault>>
    /\ UNCHANGED recordWorkerVars
    /\ UNCHANGED nonRecordVars

\* let num_workers = ...; ThreadPool::new(num_workers) up to its `for` loop.
PoolNew ==
    /\ rpc = "new"
    /\ num_workers' = NumWorkersFor(nstreams)
    /\ IF num_workers' > 0
       THEN /\ rpc' = "spawn"
            /\ rsender' = "alive"
            /\ rfault' = rfault
       ELSE RecordPanics("assert_size")
    /\ UNCHANGED <<nstreams, ridx, spawned, chan>>
    /\ UNCHANGED recordWorkerVars
    /\ UNCHANGED nonRecordVars

\* workers.push(Worker::new(id, Arc::clone(&receiver))): the thread starts at once.
PoolSpawn ==
    /\ rpc = "spawn"
    /\ spawned' = spawned + 1
    /\ wcount' = [wcount EXCEPT !["lock"] = @ + 1]
    /\ rpc' = IF spawned + 1 < num_workers THEN "spawn" ELSE "execute"
    /\ UNCHANGED <<nstreams, ridx, num_workers, chan, rsender, rfault, rpoisoned, running>>
    /\ UNCHANGED nonRecordVars

\* One turn of `for stream_info in self.streams.iter()`: pool.execute(closure).
RecordExecute ==
    /\ rpc = "execute"
    /\ IF RecordReceiverAlive
       THEN /\ chan' = Append(chan, "NewTask")
            /\ IF ridx + 1 < nstreams
               THEN /\ ridx' = ridx + 1
                    /\ UNCHANGED rpc
               ELSE /\ ridx' = 0
                    /\ rpc' = "terminate"
            /\ UNCHANGED <<rsender, rfault>>
       ELSE /\ RecordPanics("execute_send")
            /\ UNCHANGED <<chan, ridx>>
    /\ UNCHANGED <<nstreams, num_workers, spawned>>
    /\ UNCHANGED recordWorkerVars
    /\ UNCHANGED nonRecordVars

\* One turn of the loop of terminate(), called by record_streams and then by Drop::drop.
RecordTerminate ==
    /\ rpc \in {"terminate", "drop_terminate"}
    /\ IF RecordReceiverAlive
       THEN /\ chan' = Append(chan, "Terminate")
            /\ IF ridx + 1 < spawned
               THEN /\ ridx' = ridx + 1
                    /\ UNCHANGED rpc
               ELSE /\ ridx' = 0
                    /\ rpc' = IF rpc = "terminate" THEN "drop_terminate" ELSE "join"
            /\ UNCHANGED <<rsender, rfault>>
       ELSE /\ RecordPanics("terminate_send")
            /\ UNCHANGED <<chan, ridx>>
    /\ UNCHANGED <<nstreams, num_workers, spawned>>
    /\ UNCHANGED recordWorkerVars
    /\ UNCHANGED nonRecordVars

\* One turn of the join loop of Drop::drop; ridx workers have been joined, all of them
\* exited.  The next worker of the Vec is any thread not yet joined.
RecordJoin ==
    /\ rpc = "join"
    /\ \/ /\ wcount["exited"] > ridx
          /\ IF ridx + 1 < spawned
             THEN /\ ridx' = ridx + 1
                  /\ UNCHANGED <<rpc, rsender>>
             ELSE /\ ridx' = 0
                  /\ rpc' = "returned"
                  /\ rsender' = "dropped"
          /\ UNCHANGED rfault
       \/ /\ wcount["panicked"] > 0
          /\ RecordPanics("join")
          /\ UNCHANGED ridx
    /\ UNCHANGED <<nstreams, num_workers, spawned, chan>>
    /\ UNCHANGED recordWorkerVars
    /\ UNCHANGED nonRecordVars

recordMainVars == <<nstreams, rpc, ridx, num_workers, spawned, rsender, rfault>>

\* receiver.lock().unwrap() by one of the threads about to take the lock.
AnyWorkerLock ==
    /\ wcount["lock"] > 0
    /\ IF rpoisoned
       THEN wcount' = Move("lock", "panicked")
       ELSE /\ wcount["recv"] = 0
            /\ wcount' = Move("lock", "recv")
    /\ UNCHANGED <<chan, rpoisoned, running>>
    /\ UNCHANGED recordMainVars
    /\ UNCHANGED nonRecordVars

\* .recv().unwrap() and the match, by the thread that holds the lock.
AnyWorkerRecv ==
    /\ wcount["recv"] > 0
    /\ IF chan # <<>>
       THEN /\ chan' = Tail(chan)
            /\ UNCHANGED rpoisoned
            /\ IF Head(chan) = "NewTask"
               THEN /\ wcount' = Move("recv", TaskPosition)
                    /\ running' = running + 1
               ELSE /\ wcount' = Move("recv", "exited")
                    /\ UNCHANGED running
       ELSE /\ rsender = "dropped"
            /\ wcount' = Move("recv", "panicked")
            /\ rpoisoned' = TRUE
            /\ UNCHANGED <<chan, running>>
    /\ UNCHANGED recordMainVars
    /\ UNCHANGED nonRecordVars

\* task() ends in one of the threads that run one.
AnyWorkerTask ==
    /\ wcount["task"] > 0
    /\ \E env \in TaskEnvs :
         wcount' = Move("task", IF RecordingTask(env).panicked THEN "panicked" ELSE AfterTask)
    /\ running' = running - 1
    /\ UNCHANGED <<chan, rpoisoned>>
    /\ UNCHANGED recordMainVars
    /\ UNCHANGED nonRecordVars

NextRecord ==
    \/ CreateDir
    \/ PoolNew
    \/ PoolSpawn
    \/ RecordExecute
    \/ RecordTerminate
    \/ RecordJoin
    \/ AnyWorkerLock
    \/ AnyWorkerRecv
    \/ AnyWorkerTask

SpecRecord == InitRecord /\ [][NextRecord]_vars

(***************************************************************************)
(* Properties of record_streams.                                           *)
(***************************************************************************)
\* From the return of ThreadPool::new to the end of Drop::drop.
PoolExists == rpc \in {"execute", "terminate", "drop_terminate", "join"}

\* C8: while the pool of record_streams exists it has min(10, S) workers for the S
\* streams of the listener (S does not change), which is at least one when S >= 1.
C8_PoolSize ==
    PoolExists =>
        /\ (nstreams <= 10 => spawned = nstreams)
        /\ (nstreams > 10 => spawned = 10)
        /\ (nstreams >= 1 => spawned >= 1)

C8_Witness ==
    /\ PoolExists
    /\ nstreams = 11
    /\ spawned = 10

\* C9: never more than ten recordings, nor more than min(10, S), are in progress, and
\* every recording in progress occupies a worker thread of its own.
C9_AtMostTenRecordings ==
    /\ running <= 10
    /\ (nstreams <= 10 => running <= nstreams)
    /\ running = wcount["task"]
    /\ wcount["lock"] + wcount["recv"] + wcount["task"] + wcount["exited"]
         + wcount["panicked"] = spawned

C9_Witness ==
    /\ running = 10
    /\ nstreams = 11
    /\ chan # <<>>
    /\ Head(chan) = "NewTask"

(***************************************************************************)
(* SpecTask: the closure of record_streams, one statement at a time.  The  *)
(* environment decides how Runtime::new, the request, File::create, each   *)
(* chunk() and each write_all end, and lets time pass while the closure    *)
(* is in its chunk loop.                                                   *)
(***************************************************************************)
MaxDuration == 2
MaxTime == 3
MaxChunks == 3

\* A loop that still reads when the elapsed time equals the duration.
LoopContinuesInclusive(e, d) == e <= d

\* while start_time.elapsed() < Duration::from_secs(duration)
LoopContinues(e, d) == e < d

\* A loop that asks for the next chunk after Ok(None).
AfterEofContinue == "check"

\* Ok(None) => break
AfterEof == "after_loop"

\* A loop that goes on after a failed write or read.
AfterFailureContinue == "check"

\* error!(..); break
AfterFailure == "after_loop"

InitTask ==
    /\ tpc = "runtime"
    /\ duration \in 0..MaxDuration
    /\ elapsed = 0
    /\ file \in {"absent", <<"old">>}
    /\ nrequests = 0
    /\ nreads = 0
    /\ tlog = <<>>
    /\ stopped = "none"
    /\ lateReads = 0
    /\ lateWrites = 0
    /\ PoolIdle
    /\ RecordIdle
    /\ ListenerIdle

\* let rt = tokio::runtime::Runtime::new().unwrap();
TaskRuntime ==
    /\ tpc = "runtime"
    /\ \E ok \in BOOLEAN : tpc' = IF ok THEN "request" ELSE "panicked"
    /\ UNCHANGED <<duration, elapsed, file, nrequests, nreads, tlog, stopped, lateReads,
                   lateWrites>>
    /\ UNCHANGED nonTaskVars

\* match client.get(&stream_url).send().await
TaskRequest ==
    /\ tpc = "request"
    /\ nrequests' = nrequests + 1
    /\ \E ok \in BOOLEAN :
         IF ok
         THEN tpc' = "create" /\ UNCHANGED tlog
         ELSE tpc' = "done" /\ tlog' = Append(tlog, "Error fetching stream URL")
    /\ UNCHANGED <<duration, elapsed, file, nreads, stopped, lateReads, lateWrites>>
    /\ UNCHANGED nonTaskVars

\* if let Ok(mut file) = File::create(&target_path), then let start_time = Instant::now()
TaskCreate ==
    /\ tpc = "create"
    /\ \E ok \in BOOLEAN :
         IF ok
         THEN /\ file' = <<>>
              /\ tpc' = "check"
              /\ UNCHANGED tlog
         ELSE /\ tpc' = "done"
              /\ tlog' = Append(tlog, "Error creating file")
              /\ UNCHANGED file
    /\ elapsed' = 0
    /\ UNCHANGED <<duration, nrequests, nreads, stopped, lateReads, lateWrites>>
    /\ UNCHANGED nonTaskVars

\* The loop condition and, when it holds, the call of response.chunk().
TaskCheck ==
    /\ tpc = "check"
    /\ IF LoopContinues(elapsed, duration)
       THEN /\ tpc' = "read"
            /\ nreads' = nreads + 1
            /\ lateReads' = lateReads + (IF elapsed >= duration THEN 1 ELSE 0)
            /\ UNCHANGED stopped
       ELSE /\ tpc' = "after_loop"
            /\ stopped' = "deadline"
            /\ UNCHANGED <<nreads, lateReads>>
    /\ UNCHANGED <<duration, elapsed, file, nrequests, tlog, lateWrites>>
    /\ UNCHANGED nonTaskVars

\* response.chunk().await comes back: Ok(Some(chunk)), Ok(None) or Err(e).  The source
\* yields at most MaxChunks chunks.
TaskRead ==
    /\ tpc = "read"
    /\ \/ /\ nreads <= MaxChunks
          /\ tpc' = "write"
          /\ UNCHANGED <<tlog, stopped>>
       \/ /\ tpc' = AfterEof
          /\ stopped' = "eof"
          /\ UNCHANGED tlog
       \/ /\ tpc' = AfterFailure
          /\ stopped' = "read_err"
          /\ tlog' = Append(tlog, "Error reading from response")
    /\ UNCHANGED <<duration, elapsed, file, nrequests, nreads, lateReads, lateWrites>>
    /\ UNCHANGED nonTaskVars

\* file.write_all(&chunk): the chunk is appended, or the write fails after it wrote
\* nothing or a part of the chunk.
TaskWrite ==
    /\ tpc = "write"
    /\ \/ /\ file' = Append(file, "chunk")
          /\ lateWrites' = lateWrites + (IF elapsed >= duration THEN 1 ELSE 0)
          /\ tpc' = "check"
          /\ UNCHANGED <<tlog, stopped>>
       \/ /\ file' \in {file, Append(file, "part")}
          /\ tpc' = AfterFailure
          /\ stopped' = "write_err"
          /\ tlog' = Append(tlog, "Error writing to file")
          /\ UNCHANGED lateWrites
    /\ UNCHANGED <<duration, elapsed, nrequests, nreads, lateReads>>
    /\ UNCHANGED nonTaskVars

\* info!("Successfully recorded: {}", ..) after the loop, and the end of the closure.
TaskAfterLoop ==
    /\ tpc = "after_loop"
    /\ tlog' = Append(tlog, "Successfully recorded")
    /\ tpc' = "done"
    /\ UNCHANGED <<duration, elapsed, file, nrequests, nreads, stopped, lateReads, lateWrites>>
    /\ UNCHANGED nonTaskVars

\* Time passes while the closure is in its loop (Instant::now() moves on).
Tick ==
    /\ tpc \in {"check", "read", "write"}
    /\ elapsed < MaxTime
    /\ elapsed' = elapsed + 1
    /\ UNCHANGED <<tpc, duration, file, nrequests, nreads, tlog, stopped, lateReads,
                   lateWrites>>
    /\ UNCHANGED nonTaskVars

NextTask ==
    \/ TaskRuntime
    \/ TaskRequest
    \/ TaskCreate
    \/ TaskCheck
    \/ TaskRead
    \/ TaskWrite
    \/ TaskAfterLoop
    \/ Tick

SpecTask == InitTask /\ [][NextTask]_vars

(***************************************************************************)
(* Properties of the recording task.                                       *)
(***************************************************************************)
TaskErrors ==
    {"Error fetching stream URL", "Error creating file", "Error writing to file",
     "Error reading from response"}
Logged(line) == \E i \in 1..Len(tlog) : tlog[i] = line
FileCreated == tpc \in {"check", "read", "write", "after_loop"} \/ stopped # "none"
IsPrefix(a, b) == Len(a) <= Len(b) /\ SubSeq(b, 1, Len(a)) = a

\* Steps of the closure, as the properties below speak of them.
LeavesLoop == tpc' = "after_loop" /\ file' = file /\ nreads' = nreads
LeavesLoopKeepingFile == tpc' = "after_loop" /\ IsPrefix(file, file') /\ nreads' = nreads
EndsClosure == tpc' = "done" /\ file' = file /\ nreads' = nreads /\ elapsed' = elapsed

\* C11: no chunk read is started once the elapsed time has reached the duration, so at
\* most one chunk is written after that moment; with a duration of 0 no chunk is read
\* and the created file stays empty.
C11_DeadlineCheckedBeforeEachRead ==
    /\ lateReads = 0
    /\ lateWrites <= 1
    /\ (duration = 0 /\ FileCreated) => (nreads = 0 /\ file = <<>>)
    /\ (tpc = "read" /\ nreads = 1) => duration > 0

C11_Witness ==
    /\ tpc = "done"
    /\ stopped = "deadline"
    /\ lateWrites = 1
    /\ Len(file) = 2

\* C12: on end-of-data the loop is left at once, whatever the elapsed time: no further
\* chunk is read or written, the next statement is the success line and the closure ends.
C12_EndOfDataStopsAtOnce ==
    /\ [][(stopped = "none" /\ stopped' = "eof") => LeavesLoop]_vars
    /\ [][stopped = "eof" => (EndsClosure /\ tlog' = <<"Successfully recorded">>)]_vars

C12_Witness ==
    /\ tpc = "done"
    /\ stopped = "eof"
    /\ elapsed < duration
    /\ Len(file) = 1

\* C17: a finished task has logged success or one failure, never both, and success
\* only when the loop ended by the deadline or by end-of-data.
C17_SuccessOrFailureLogged ==
    tpc = "done" =>
        /\ ~(Logged("Successfully recorded") /\ \E e \in TaskErrors : Logged(e))
        /\ (Logged("Successfully recorded") => stopped \in {"deadline", "eof"})

\* C18: a failed write or read ends the loop at once: no further chunk is read or
\* written, what the file held stays in it, and the closure runs to its end.
C18_FailureStopsLoop ==
    /\ [][(stopped = "none" /\ stopped' = "read_err") => LeavesLoop]_vars
    /\ [][(stopped = "none" /\ stopped' = "write_err") => LeavesLoopKeepingFile]_vars
    /\ [][(stopped \in {"write_err", "read_err"}) => EndsClosure]_vars

C18_Witness ==
    /\ tpc = "done"
    /\ stopped = "write_err"
    /\ file = <<"chunk", "chunk">>

(***************************************************************************)
(* SpecMain: main() from Listener::new to the end of record_streams.  The  *)
(* catalog answers each lookup with an error or with a list; the pool is   *)
(* the one of Spec, driven as record_streams drives it.                    *)
(***************************************************************************)
\* The country given on the command line, and what the catalog can hold.
Country == "X"
PlaceRecords ==
    {[id |-> "p1", country |-> "X"], [id |-> "p2", country |-> "X"],
     [id |-> "p3", country |-> "Y"]}
Titles == {<<"a">>, <<"a", "-">>, <<"b">>}
Urls == {<<"listen", "n", "c1">>, <<"c2">>}
Items == [title : Titles, url : Urls]

SeqsUpTo(S, n) == UNION {[1..k -> S] : k \in 0..n}

\* .filter(|p| p.country == country)
InCountry(p) == p.country = Country

\* char::is_alphanumeric
IsAlphanumeric(c) == c \in {"a", "b"}

\* title.chars().filter(|c| c.is_alphanumeric()).collect()
StreamName(title) == SelectSeq(title, IsAlphanumeric)

\* url.split('/').collect::<Vec<_>>().last(): there is always a last part.
LastPart(url) == url[Len(url)]

\* format!("{}listen/{}/channel.mp3", self.url, last_part)
StreamUrl(last) == <<"base", "listen", last, "channel.mp3">>

\* Stream { url, name } pushed for one item
StreamOf(item) == [name |-> StreamName(item.title), url |-> StreamUrl(LastPart(item.url))]

RECURSIVE StreamsOf(_)
StreamsOf(items) ==
    IF items = <<>> THEN <<>> ELSE <<StreamOf(Head(items))>> \o StreamsOf(Tail(items))

\* format!("stream_{}.mp3", stream_info.name), joined to the directory
FileName(s) == <<"stream_">> \o s.name \o <<".mp3">>

InitMain ==
    /\ lpc = "fetch_places"
    /\ places = <<>>
    /\ pidx = 0
    /\ streams = <<>>
    /\ storeResult = "none"
    /\ dir = "absent"
    /\ PoolIdle
    /\ RecordIdle
    /\ TaskIdle

\* store_streams line 228-230: fetch_places(country).await?, then self.streams.clear()
FetchPlaces ==
    /\ lpc = "fetch_places"
    /\ \/ /\ storeResult' = "err"
          /\ lpc' = "create_dir"
          /\ UNCHANGED <<places, streams>>
       \/ \E list \in SeqsUpTo(PlaceRecords, MaxTasks) :
            /\ places' = SelectSeq(list, InCountry)
            /\ streams' = <<>>
            /\ IF places' = <<>>
               THEN /\ storeResult' = "ok"
                    /\ lpc' = "create_dir"
               ELSE /\ lpc' = "fetch_channels"
                    /\ UNCHANGED storeResult
    /\ UNCHANGED <<pidx, dir>>
    /\ UNCHANGED <<poolVars, recordVars, taskVars>>

\* store_streams line 232-251: one round of `for place in places`
FetchChannels ==
    /\ lpc = "fetch_channels"
    /\ \/ /\ storeResult' = "err"
          /\ lpc' = "create_dir"
          /\ UNCHANGED <<pidx, streams>>
       \/ \E items \in SeqsUpTo(Items, MaxTasks - Len(streams)) :
            /\ streams' = streams \o StreamsOf(items)
            /\ pidx' = pidx + 1
            /\ IF pidx + 1 < Len(places)
               THEN UNCHANGED <<lpc, storeResult>>
               ELSE /\ storeResult' = "ok"
                    /\ lpc' = "create_dir"
    /\ UNCHANGED <<places, dir>>
    /\ UNCHANGED <<poolVars, recordVars, taskVars>>

\* main.rs line 30-36 and record_streams line 116: whatever store_streams returned is
\* logged, then record_streams is called; fs::create_dir_all(directory)?
MainCreateDir ==
    /\ lpc = "create_dir"
    /\ \/ /\ dir' = "created"
          /\ lpc' = "pool_new"
       \/ /\ lpc' = "done"
          /\ UNCHANGED dir
    /\ UNCHANGED <<places, pidx, streams, storeResult>>
    /\ UNCHANGED <<poolVars, recordVars, taskVars>>

\* record_streams line 118-119: ThreadPool::new(min(10, self.streams.len()))
MainPoolNew ==
    /\ lpc = "pool_new"
    /\ LET size == NumWorkersFor(Len(streams)) IN
       IF size > 0
       THEN /\ workers' = [i \in 1..size |-> [id |-> i - 1, thread |-> "Some"]]
            /\ sender' = "alive"
            /\ wpc' = [w \in 1..size |-> "lock"]
            /\ cur' = [w \in 1..size |-> 0]
            /\ termRecv' = [w \in 1..size |-> 0]
            /\ mainPc' = "body"
            /\ lpc' = "recording"
            /\ UNCHANGED fault
       ELSE /\ fault' = "assert_size"
            /\ lpc' = "panicked"
            /\ UNCHANGED <<workers, sender, wpc, cur, termRecv, mainPc>>
    /\ UNCHANGED <<queue, lockHolder, poisoned, mainIdx, inDrop, submitted, termCalls,
                   beforeTerm, termSent, execCount, res>>
    /\ UNCHANGED <<places, pidx, streams, storeResult, dir>>
    /\ UNCHANGED <<recordVars, taskVars>>

\* record_streams line 122-163: pool.execute for the next stream
MainExecute ==
    /\ lpc = "recording"
    /\ submitted < Len(streams)
    /\ Execute

\* record_streams line 165: pool.terminate() after the last stream
MainTerminate ==
    /\ lpc = "recording"
    /\ submitted = Len(streams)
    /\ termCalls = 0
    /\ TerminateCall

\* record_streams line 167-168: `pool` goes out of scope
MainDrop ==
    /\ lpc = "recording"
    /\ termCalls = 1
    /\ DropBegin

\* record_streams has returned Ok(()) to main
MainReturn ==
    /\ lpc = "recording"
    /\ mainPc = "returned"
    /\ lpc' = "done"
    /\ UNCHANGED <<places, pidx, streams, storeResult, dir>>
    /\ UNCHANGED <<poolVars, recordVars, taskVars>>

NextMain ==
    \/ FetchPlaces
    \/ FetchChannels
    \/ MainCreateDir
    \/ MainPoolNew
    \/ MainExecute
    \/ MainTerminate
    \/ MainDrop
    \/ TerminateSend
    \/ Join
    \/ MainReturn
    \/ \E w \in WorkerIds : WorkerLock(w)
    \/ \E w \in WorkerIds : WorkerRecv(w)
    \/ \E w \in WorkerIds : WorkerTask(w)

SpecMain == InitMain /\ [][NextMain]_vars

(***************************************************************************)
(* Properties of a run of main().                                          *)
(***************************************************************************)
\* The stream a task records: tasks are submitted in the order of self.streams.
StreamOfTask(t) == streams[t]

\* C13: the tasks that execute at the same time record into pairwise distinct files.
C13_ConcurrentTasksWriteDistinctFiles ==
    \A t1 \in Executing : \A t2 \in Executing :
        t1 # t2 => FileName(StreamOfTask(t1)) # FileName(StreamOfTask(t2))

\* C14: after store_streams has returned an error no recording task is submitted or
\* executed and no output file is written.
C14_DiscoveryErrorAbortsRun ==
    storeResult = "err" =>
        /\ submitted = 0
        /\ \A t \in TaskIds : execCount[t] = 0 /\ ~res[t].created

====
